---- MODULE Spec2Model ----
(***************************************************************************)
(* Chotu Dairy backend: a product catalog, sales records and the dated     *)
(* reports computed over them (app/route.py), the per-request store        *)
(* session (app/database.py) and the tables (app/models.py).               *)
(*                                                                         *)
(* Amounts (price, total_price) are modelled as integers: the code holds   *)
(* them as floats, and float rounding is outside this model.               *)
(***************************************************************************)
EXTENDS Integers, Sequences, FiniteSets, TLC

(***************************************************************************)
(* Bounds of the model.                                                    *)
(***************************************************************************)
MaxProducts == 2
MaxSales == 2
MaxRequests == 3

(***************************************************************************)
(* Calendar dates, as datetime.date holds them: year, month, day.          *)
(***************************************************************************)
D(y, m, d) == [year |-> y, month |-> m, day |-> d]

is_leap(y) == (y % 4 = 0) /\ ((y % 100 # 0) \/ (y % 400 = 0))

days_in_month(y, m) ==
    IF m = 2 THEN (IF is_leap(y) THEN 29 ELSE 28)
    ELSE IF m \in {4, 6, 9, 11} THEN 30 ELSE 31

RECURSIVE days_before_month(_, _)
days_before_month(y, m) ==
    IF m = 1 THEN 0 ELSE days_before_month(y, m - 1) + days_in_month(y, m - 1)

days_before_year(y) ==
    (y - 1) * 365 + ((y - 1) \div 4) - ((y - 1) \div 100) + ((y - 1) \div 400)

\* date.toordinal(): 0001-01-01 is day 1.
toordinal(dt) == days_before_year(dt.year) + days_before_month(dt.year, dt.month) + dt.day

\* date.fromordinal(n): the year and the month whose days hold day n.
fromordinal(n) ==
    LET y == CHOOSE yy \in (n \div 366)..(n \div 365 + 1) :
                 days_before_year(yy) < n /\ n <= days_before_year(yy + 1)
        r == n - days_before_year(y)
        m == CHOOSE mm \in 1..12 :
                 days_before_month(y, mm) < r
                 /\ r <= days_before_month(y, mm) + days_in_month(y, mm)
    IN  D(y, m, r - days_before_month(y, m))

\* date.weekday(): Monday = 0 .. Sunday = 6.
weekday(dt) == (toordinal(dt) + 6) % 7

\* date.isoweekday(): Monday = 1 .. Sunday = 7.
isoweekday(dt) == IF toordinal(dt) % 7 = 0 THEN 7 ELSE toordinal(dt) % 7

\* date comparison (Python's and SQL's): by year, then month, then day.
DateLE(a, b) ==
    \/ a.year < b.year
    \/ a.year = b.year /\ a.month < b.month
    \/ a.year = b.year /\ a.month = b.month /\ a.day <= b.day

\* SQL: col BETWEEN lo AND hi.
between(dt, lo, hi) == DateLE(lo, dt) /\ DateLE(dt, hi)

\* date - timedelta(days=k), date + timedelta(days=k)
MinusDays(dt, k) == fromordinal(toordinal(dt) - k)
PlusDays(dt, k) == fromordinal(toordinal(dt) + k)

\* calendar.day_name[i][:3], i in Monday-first numbering.
day_abbr(i) == <<"Mon", "Tue", "Wed", "Thu", "Fri", "Sat", "Sun">>[i + 1]

\* calendar.month_abbr[1..12]
month_abbr(i) ==
    <<"Jan", "Feb", "Mar", "Apr", "May", "Jun",
      "Jul", "Aug", "Sep", "Oct", "Nov", "Dec">>[i]

\* calendar.monthrange(year, month)[1]
monthrange_days(y, m) == days_in_month(y, m)

(***************************************************************************)
(* str(int) and int(str) on non-negative integers; a string is modelled as *)
(* the sequence of its characters.                                         *)
(***************************************************************************)
Digit(k) == <<"0", "1", "2", "3", "4", "5", "6", "7", "8", "9">>[k + 1]

DigitValue(c) == CHOOSE k \in 0..9 : Digit(k) = c

RECURSIVE str(_)
str(n) == IF n < 10 THEN <<Digit(n)>> ELSE Append(str(n \div 10), Digit(n % 10))

RECURSIVE int(_)
int(s) ==
    IF Len(s) = 1 THEN DigitValue(s[1])
    ELSE 10 * int(SubSeq(s, 1, Len(s) - 1)) + DigitValue(s[Len(s)])

(***************************************************************************)
(* The store and the last request served.                                  *)
(***************************************************************************)
VARIABLES
    products,       \* rows of table products: [id, product_name, price]
    sales,          \* rows of table sales
    nextProductId,  \* the products.id sequence
    nextSaleId,     \* the sales.id sequence
    last,           \* the last request and its response
    pc,             \* per worker: where its request stands
    req,            \* per worker: the request it serves
    session,        \* per worker: its store session: none, open, closed
    opened,         \* per worker: sessions acquired for the current request
    closed,         \* per worker: times the current request's session was closed
    misuse,         \* a session was used while not open
    served          \* requests begun so far (concurrent specification)

storeVars == <<products, sales, nextProductId, nextSaleId>>
workerVars == <<pc, req, session, opened, closed, misuse, served>>
vars == <<products, sales, nextProductId, nextSaleId, last,
          pc, req, session, opened, closed, misuse, served>>

NumWorkers == 2
Workers == 1..NumWorkers

NoRequest == [op |-> "none"]

\* SUM(total_price) over a set of sales rows (0 for no row: "or 0", float(..)).
RECURSIVE SumTotal(_)
SumTotal(S) ==
    IF S = {} THEN 0
    ELSE LET s == CHOOSE x \in S : TRUE
         IN  s.total_price + SumTotal(S \ {s})

\* A slip: the filter on Product.id left out, .first() takes any product.
ProductByIdUnfiltered(id) == products

\* db.query(Product).filter(Product.id == id).first()
ProductById(id) == {p \in products : p.id = id}

\* db.query(Sales).filter(Sales.product_id == id).first()
SalesOfProduct(id) == {s \in sales : s.product_id = id}

\* A slip: the column declared without its ForeignKey, nothing checked.
ForeignKeyNotEnforced(P, S) == TRUE

\* ForeignKey("products.id") on sales.product_id, checked by the store at commit.
ForeignKeyHolds(P, S) == \A s \in S : \E p \in P : p.id = s.product_id

Init ==
    /\ products = {}
    /\ sales = {}
    /\ nextProductId = 1
    /\ nextSaleId = 1
    /\ last = NoRequest
    /\ pc = [w \in Workers |-> "idle"]
    /\ req = [w \in Workers |-> NoRequest]
    /\ session = [w \in Workers |-> "none"]
    /\ opened = [w \in Workers |-> 0]
    /\ closed = [w \in Workers |-> 0]
    /\ misuse = FALSE
    /\ served = 0

(***************************************************************************)
(* Requests run to completion, one at a time.  A handler's queries and its  *)
(* commit are then one step, and the store's foreign key, which could only *)
(* refuse what the handler's own query has just admitted, is left out: what *)
(* holds here holds by the handlers' checks alone.                         *)
(***************************************************************************)

\* ProductCreate: product_name: str, price: float, with no constraint on
\* either: every string and every number is taken.
ProductCreateValid(name, price) == TRUE

\* POST /products
create_product(name, price) ==
    /\ IF ProductCreateValid(name, price)
       THEN LET new_product == [id |-> nextProductId, product_name |-> name,
                                price |-> price]
            IN  /\ products' = products \cup {new_product}
                /\ nextProductId' = nextProductId + 1
                /\ last' = [op |-> "createProduct",
                            args |-> [product_name |-> name, price |-> price],
                            status |-> 200, body |-> new_product]
       ELSE /\ UNCHANGED <<products, nextProductId>>
            /\ last' = [op |-> "createProduct",
                        args |-> [product_name |-> name, price |-> price],
                        status |-> 422, body |-> "ValidationError"]
    /\ UNCHANGED <<sales, nextSaleId, workerVars>>

\* GET /products
get_products ==
    /\ last' = [op |-> "listProducts", args |-> <<>>, status |-> 200,
                body |-> products]
    /\ UNCHANGED <<storeVars, workerVars>>

\* A slip: total_price recomputed as quantity x the product's price.
SalesRowRecomputed(id, name, product_id, quantity, dt, total_price) ==
    [id |-> id, name |-> name, product_id |-> product_id, quantity |-> quantity,
     date |-> dt,
     total_price |-> quantity * (CHOOSE p \in products : p.id = product_id).price]

\* Sales(name=..., product_id=..., quantity=..., date=..., total_price=...)
SalesRow(id, name, product_id, quantity, dt, total_price) ==
    [id |-> id, name |-> name, product_id |-> product_id, quantity |-> quantity,
     date |-> dt, total_price |-> total_price]

\* POST /sales
create_sale(name, product_id, quantity, dt, total_price) ==
    /\ LET args == [name |-> name, product_id |-> product_id,
                    quantity |-> quantity, date |-> dt,
                    total_price |-> total_price]
       IN  IF ProductById(product_id) = {}
           THEN /\ last' = [op |-> "createSale", args |-> args, status |-> 404,
                            body |-> "Product not found"]
                /\ UNCHANGED <<sales, nextSaleId>>
           ELSE LET new_sale == SalesRow(nextSaleId, name, product_id,
                                         quantity, dt, total_price)
                IN  /\ sales' = sales \cup {new_sale}
                    /\ nextSaleId' = nextSaleId + 1
                    /\ last' = [op |-> "createSale", args |-> args,
                                status |-> 200, body |-> new_sale]
    /\ UNCHANGED <<products, nextProductId, workerVars>>

\* A slip: the optional guard left out.
DeleteBlockedNever(product_id) == FALSE

\* The "sales exist" guard of delete_product.
DeleteBlocked(product_id) == SalesOfProduct(product_id) # {}

\* DELETE /products/{product_id}
delete_product(product_id) ==
    /\ IF ProductById(product_id) = {}
       THEN /\ last' = [op |-> "deleteProduct", args |-> product_id,
                        status |-> 404, body |-> "Product not found"]
            /\ UNCHANGED products
       ELSE IF DeleteBlocked(product_id)
       THEN /\ last' = [op |-> "deleteProduct", args |-> product_id,
                        status |-> 400,
                        body |-> "Cannot delete: Product is used in sales records"]
            /\ UNCHANGED products
       ELSE /\ products' = products \ ProductById(product_id)
            /\ last' = [op |-> "deleteProduct", args |-> product_id,
                        status |-> 200, body |-> "Product deleted successfully"]
    /\ UNCHANGED <<sales, nextProductId, nextSaleId, workerVars>>

(***************************************************************************)
(* The reports.  A response carries its rows in body and, when the request *)
(* is refused, the error's detail.                                         *)
(***************************************************************************)
\* A dict, as the set of its items; each key has one item.
DictZero(keys) == {[key |-> k, value |-> 0] : k \in keys}
DictKeys(d) == {e.key : e \in d}
DictGet(d, k) == (CHOOSE e \in d : e.key = k).value

\* d[key] = value on a dict: the key is added when it is not there.
DictSet(d, key, value) ==
    {e \in d : e.key # key} \cup {[key |-> key, value |-> value]}

ordered_days == <<"Sun", "Mon", "Tue", "Wed", "Thu", "Fri", "Sat">>

\* .filter(...).group_by(Sales.date): one row per date, with SUM(total_price).
GroupByDate(S) ==
    {[date |-> d, total |-> SumTotal({s \in S : s.date = d})] :
        d \in {s.date : s \in S}}

\* A slip: the checks written with the numbers of the comments beside them
\* ("Sunday = 6", "Saturday = 5"), which are weekday()'s, not isoweekday()'s.
WeeklyRangeErrorAsCommented(start_date, end_date) ==
    IF isoweekday(start_date) # 6 THEN "Start date must be a Sunday"
    ELSE IF isoweekday(end_date) # 5 THEN "End date must be a Saturday"
    ELSE IF toordinal(end_date) - toordinal(start_date) # 6
         THEN "Dates must form a full week (Sunday -> Saturday)"
    ELSE ""

\* The three checks of get_weekly_sales: the detail of the 400, "" when none.
WeeklyRangeError(start_date, end_date) ==
    IF isoweekday(start_date) # 7 THEN "Start date must be a Sunday"
    ELSE IF isoweekday(end_date) # 6 THEN "End date must be a Saturday"
    ELSE IF toordinal(end_date) - toordinal(start_date) # 6
         THEN "Dates must form a full week (Sunday -> Saturday)"
    ELSE ""

\* A slip: the weekday number used as an index into the Sunday-first list.
WeekdayNameSundayFirst(dt) == ordered_days[weekday(dt) + 1]

\* calendar.day_name[row.date.weekday()][:3]
WeekdayName(dt) == day_abbr(weekday(dt))

\* for row in results: weekday_totals[weekday_name] += float(row.total)
RECURSIVE AddToWeekdays(_, _)
AddToWeekdays(totals, rows) ==
    IF rows = {} THEN totals
    ELSE LET row == CHOOSE r \in rows : TRUE
             name == WeekdayName(row.date)
         IN  AddToWeekdays(
                 DictSet(totals, name, DictGet(totals, name) + row.total),
                 rows \ {row})

\* GET /sales/graph/weekly
get_weekly_sales(start_date, end_date) ==
    /\ LET args == <<start_date, end_date>>
           err == WeeklyRangeError(start_date, end_date)
       IN  IF err # ""
           THEN last' = [op |-> "weeklyTotals", args |-> args, status |-> 400,
                         detail |-> err, body |-> <<>>]
           ELSE LET zero == DictZero({ordered_days[i] : i \in 1..7})
                    results == GroupByDate(
                        {s \in sales : between(s.date, start_date, end_date)})
                    weekday_totals == AddToWeekdays(zero, results)
                IN  last' = [op |-> "weeklyTotals", args |-> args,
                             status |-> 200, detail |-> "",
                             body |-> [i \in 1..7 |->
                                 [day |-> ordered_days[i],
                                  total |-> DictGet(weekday_totals,
                                                    ordered_days[i])]]]
    /\ UNCHANGED <<storeVars, workerVars>>

\* for row in results: day_totals[str(row.date.day)] = float(row.total)
RECURSIVE FillDays(_, _)
FillDays(totals, rows) ==
    IF rows = {} THEN totals
    ELSE LET row == CHOOSE r \in rows : TRUE
         IN  FillDays(DictSet(totals, str(row.date.day), row.total), rows \ {row})

\* A slip: key=int left out, the day labels sorted as text ("1" < "10" < "2").
SortKeyText(k) == 11 * DigitValue(k[1]) + (IF Len(k) > 1 THEN DigitValue(k[2]) + 1 ELSE 0)

\* sorted(day_totals.keys(), key=int)
SortKey(k) == int(k)

\* Pairs <<sort key, item>> put in ascending order of the sort key.
RECURSIVE SortPairs(_)
SortPairs(pairs) ==
    IF pairs = {} THEN <<>>
    ELSE LET m == CHOOSE p \in pairs : \A q \in pairs : p[1] <= q[1]
         IN  <<m[2]>> \o SortPairs({q \in pairs : q[2] # m[2]})

Sorted(keys) == SortPairs({<<SortKey(k), k>> : k \in keys})

\* [{"day": day, "total": day_totals[day]} for day in sorted(...)]
DayRows(order, day_totals) ==
    [i \in 1..Len(order) |->
        [day |-> order[i], total |-> DictGet(day_totals, order[i])]]

\* GET /sales/graph/monthly
get_monthly_sales(year, month) ==
    /\ IF month \notin 1..12
       THEN \* calendar.monthrange raises IllegalMonthError: not handled
            last' = [op |-> "monthlyTotals", args |-> <<year, month>>,
                     status |-> 500, detail |-> "Internal Server Error",
                     body |-> <<>>]
       ELSE LET num_days == monthrange_days(year, month)
                zero == DictZero({str(day) : day \in 1..num_days})
                results == GroupByDate(
                    {s \in sales : s.date.year = year /\ s.date.month = month})
                day_totals == FillDays(zero, results)
                order == Sorted(DictKeys(day_totals))
            IN  last' = [op |-> "monthlyTotals", args |-> <<year, month>>,
                         status |-> 200, detail |-> "",
                         body |-> DayRows(order, day_totals)]
    /\ UNCHANGED <<storeVars, workerVars>>

\* .group_by(func.extract("month", Sales.date)): one row per month, with the sum.
GroupByMonth(S) ==
    {[month |-> m, total |-> SumTotal({s \in S : s.date.month = m})] :
        m \in {s.date.month : s \in S}}

\* for row in results: month_totals[calendar.month_abbr[int(row.month)]] = ...
RECURSIVE FillMonths(_, _)
FillMonths(totals, rows) ==
    IF rows = {} THEN totals
    ELSE LET row == CHOOSE r \in rows : TRUE
         IN  FillMonths(DictSet(totals, month_abbr(row.month), row.total),
                        rows \ {row})

MinYear == 1900
MaxYear == 2100

\* GET /sales/graph/yearly
get_yearly_sales(year) ==
    /\ IF year < MinYear \/ year > MaxYear
       THEN last' = [op |-> "yearlyTotals", args |-> year, status |-> 400,
                     detail |-> "Invalid year", body |-> <<>>]
       ELSE LET zero == DictZero({month_abbr(i) : i \in 1..12})
                results == GroupByMonth({s \in sales : s.date.year = year})
                month_totals == FillMonths(zero, results)
            IN  last' = [op |-> "yearlyTotals", args |-> year, status |-> 200,
                         detail |-> "",
                         body |-> [i \in 1..12 |->
                             [month |-> month_abbr(i),
                              total |-> DictGet(month_totals, month_abbr(i))]]]
    /\ UNCHANGED <<storeVars, workerVars>>

\* A slip: the special case for a Sunday left out.
start_of_week_no_sunday_case(today) == MinusDays(today, weekday(today) + 1)

\* today - timedelta(days=today.weekday() + 1 if today.weekday() != 6 else 0)
start_of_week(today) ==
    MinusDays(today, IF weekday(today) # 6 THEN weekday(today) + 1 ELSE 0)

\* start_of_week + timedelta(days=6)
end_of_week(today) == PlusDays(start_of_week(today), 6)

\* db.query(func.sum(Sales.total_price)).filter(Sales.date.between(lo, hi)).scalar() or 0
SumBetween(lo, hi) == SumTotal({s \in sales : between(s.date, lo, hi)})

\* The response of get_sales_summary for the week found.
SummaryResponse(today, week_start, week_end) ==
    [op |-> "summary", args |-> today, status |-> 200, detail |-> "",
     week_range |-> <<week_start, week_end>>,
     body |-> [today |-> SumTotal({s \in sales : s.date = today}),
               week |-> SumBetween(week_start, week_end),
               month |-> SumBetween(D(today.year, today.month, 1),
                                    D(today.year, today.month,
                                      monthrange_days(today.year, today.month))),
               year |-> SumBetween(D(today.year, 1, 1), D(today.year, 12, 31))]]

\* GET /sales/summary, with date.today() = today
get_sales_summary(today) ==
    /\ last' = SummaryResponse(today, start_of_week(today), end_of_week(today))
    /\ UNCHANGED <<storeVars, workerVars>>

\* Inputs of the catalog specification.
ProductInputs == {<<"Milk", 50>>, <<"", 50>>, <<"Milk", 0>>}
ProductIds == 1..(MaxProducts + 1)
SaleName == "Asha"
Jun2 == D(2024, 6, 2)
Quantities == {3}
Amounts == {100, 150}

Next ==
    \/ /\ nextProductId <= MaxProducts
       /\ \E in \in ProductInputs : create_product(in[1], in[2])
    \/ get_products
    \/ /\ nextSaleId <= MaxSales
       /\ \E pid \in ProductIds, q \in Quantities, a \in Amounts :
              create_sale(SaleName, pid, q, Jun2, a)
    \/ \E pid \in ProductIds : delete_product(pid)

Spec == Init /\ [][Next]_vars

(***************************************************************************)
(* Claims about the catalog and the sales records, under Spec.             *)
(***************************************************************************)
ProductIdsOf(P) == {p.id : p \in P}

\* C1: in every reachable state every stored sale's product_id is the id of
\* a product that is in the store: no sale is created for a missing product
\* and no product is removed while a sale references it.
C1_SalesReferenceProducts ==
    {s.product_id : s \in sales} \subseteq ProductIdsOf(products)

\* C1's case: a sale is stored and the deletion of its product was just refused.
C1_Witness ==
    /\ last.op = "deleteProduct"
    /\ last.status = 400
    /\ \E s \in sales : s.product_id = last.args

\* C2: deleteProduct(id) ends in exactly one of NotFound (no such product),
\* Conflict (the product exists and a sale references it) or success
\* (otherwise); only success changes the store, removing exactly that
\* product; after a Conflict the product is still there to be listed.
C2_DeleteStep ==
    LET id == last'.args
        exists == id \in ProductIdsOf(products)
        referenced == \E s \in sales : s.product_id = id
    IN  /\ last'.status \in {200, 400, 404}
        /\ (last'.status = 404) <=> ~exists
        /\ (last'.status = 400) <=> (exists /\ referenced)
        /\ (last'.status = 200) <=> (exists /\ ~referenced)
        /\ sales' = sales
        /\ nextProductId' = nextProductId /\ nextSaleId' = nextSaleId
        /\ last'.status # 200 => products' = products
        /\ last'.status = 400 => id \in ProductIdsOf(products')
        /\ last'.status = 200 =>
               /\ products' \subseteq products
               /\ Cardinality(products') = Cardinality(products) - 1
               /\ id \notin ProductIdsOf(products')

C2_DeleteOutcomes == [][last'.op = "deleteProduct" => C2_DeleteStep]_vars

\* C2's case: a product that a sale references was asked to be deleted, the
\* request ended in Conflict, and another product had been deleted before.
C2_Witness ==
    /\ last.op = "deleteProduct"
    /\ last.status = 400
    /\ \E p \in products : p.id = last.args
    /\ Cardinality(products) < nextProductId - 1

\* C3: createSale for a product_id that no product has ends in NotFound and
\* leaves products and sales as they were; otherwise it adds exactly one sale
\* with a fresh id and the name, product_id, quantity, date and total_price
\* the caller gave (total_price is not recomputed from quantity x price).
C3_CreateSaleStep ==
    LET a == last'.args
    IN  /\ products' = products
        /\ IF a.product_id \notin ProductIdsOf(products)
           THEN last'.status = 404 /\ sales' = sales
           ELSE /\ last'.status = 200
                /\ \E s \in sales' :
                       /\ s \notin sales
                       /\ sales' = sales \cup {s}
                       /\ s.id \notin {x.id : x \in sales}
                       /\ s.name = a.name
                       /\ s.product_id = a.product_id
                       /\ s.quantity = a.quantity
                       /\ s.date = a.date
                       /\ s.total_price = a.total_price
                       /\ last'.body = s

C3_CreateSale == [][last'.op = "createSale" => C3_CreateSaleStep]_vars

\* C3's case: a stored sale whose total_price is not quantity x price, and a
\* createSale for a missing product that was just refused.
C3_Witness ==
    /\ last.op = "createSale"
    /\ last.status = 404
    /\ \E s \in sales : \E p \in products :
           p.id = s.product_id /\ s.total_price # s.quantity * p.price

\* C4: createProduct with an empty name or a price <= 0 fails with a
\* ValidationError and persists nothing, so every stored product has a
\* non-empty product_name and a positive price.
C4_ProductsValidated ==
    /\ \A p \in products : p.product_name # "" /\ p.price > 0
    /\ (last.op = "createProduct"
        /\ (last.args.product_name = "" \/ last.args.price <= 0))
           => last.status # 200

(***************************************************************************)
(* The reports, each over a store filled by createProduct and createSale.  *)
(* 2024-06-02 is a Sunday.                                                 *)
(***************************************************************************)
Jun1 == D(2024, 6, 1)
Jun5 == D(2024, 6, 5)
Jun8 == D(2024, 6, 8)
Jun9 == D(2024, 6, 9)
Jun15 == D(2024, 6, 15)
Feb29 == D(2024, 2, 29)
Feb28of2023 == D(2023, 2, 28)
Dec29 == D(2024, 12, 29)

\* The store is filled with one product and sales of it on the given dates.
FillStore(dates) ==
    \/ nextProductId <= 1 /\ create_product("Milk", 50)
    \/ /\ nextSaleId <= MaxSales
       /\ \E dt \in dates, a \in Amounts : create_sale(SaleName, 1, 3, dt, a)

WeeklySaleDates == {Jun1, Jun2, Jun5, Jun8, Jun9}
WeekDates == {Jun1, Jun2, Jun5, Jun8, Jun9, Jun15}

NextWeekly ==
    \/ FillStore(WeeklySaleDates)
    \/ \E s \in WeekDates, e \in WeekDates : get_weekly_sales(s, e)

SpecWeekly == Init /\ [][NextWeekly]_vars

MonthlySaleDates == {Feb29, D(2024, 2, 1), Feb28of2023, Jun2, Jun9, D(2024, 12, 31)}
MonthInputs == {<<2024, 2>>, <<2023, 2>>, <<2100, 2>>, <<2024, 6>>,
                <<2024, 12>>, <<2024, 13>>}
YearInputs == {1899, 1900, 2023, 2024, 2100, 2101}

NextMonthly ==
    \/ FillStore(MonthlySaleDates)
    \/ \E in \in MonthInputs : get_monthly_sales(in[1], in[2])
    \/ \E y \in YearInputs : get_yearly_sales(y)

SpecMonthly == Init /\ [][NextMonthly]_vars

SummarySaleDates == {Jun1, Jun2, Jun8, Jun9, Dec29, D(2025, 1, 4), D(2024, 2, 25)}
Todays == {D(2024, 6, d) : d \in 2..8} \cup {D(2025, 1, 1), D(2024, 3, 1)}

NextSummary ==
    \/ FillStore(SummarySaleDates)
    \/ \E today \in Todays : get_sales_summary(today)

SpecSummary == Init /\ [][NextSummary]_vars

(***************************************************************************)
(* Claims about the reports.  Days are counted from 2024-06-02, a Sunday.  *)
(***************************************************************************)
DaysFrom(a, b) == toordinal(b) - toordinal(a)
IsSunday(dt) == DaysFrom(Jun2, dt) % 7 = 0
IsSaturday(dt) == DaysFrom(Jun2, dt) % 7 = 6
MondayFirstWeekday(dt) == DaysFrom(D(2024, 6, 3), dt) % 7

\* The sales dated from day lo to day hi, both counted from date base.
SalesOnDays(base, lo, hi) ==
    {x \in sales : lo <= DaysFrom(base, x.date) /\ DaysFrom(base, x.date) <= hi}

RECURSIVE SumOfTotals(_, _)
SumOfTotals(rows, n) == IF n = 0 THEN 0 ELSE rows[n].total + SumOfTotals(rows, n - 1)

\* C5: weeklyTotals(start_date, end_date) is accepted if and only if
\* start_date is a Sunday, end_date is a Saturday and end_date is exactly 6
\* days after start_date; every other pair is refused with a 400 and
\* returns no bucket.
C5_WeeklyAcceptedIffFullWeek ==
    last.op = "weeklyTotals" =>
        LET s == last.args[1]
            e == last.args[2]
        IN  /\ last.status \in {200, 400}
            /\ (last.status = 200) <=>
                   (IsSunday(s) /\ IsSaturday(e) /\ DaysFrom(s, e) = 6)
            /\ last.status = 400 => (last.body = <<>> /\ last.detail # "")

\* C5's case: a Sunday start with the Saturday of the week after, refused.
C5_Witness ==
    /\ last.op = "weeklyTotals"
    /\ last.status = 400
    /\ IsSunday(last.args[1]) /\ IsSaturday(last.args[2])
    /\ DaysFrom(last.args[1], last.args[2]) = 13
    /\ sales # {}

\* C6: for a valid weekly range weeklyTotals returns 7 entries in the order
\* Sun, Mon, Tue, Wed, Thu, Fri, Sat; each entry is the sum of total_price
\* of the sales dated on the day of the range that falls on that weekday
\* (0 when there is none), and the 7 totals add up to the sum over the
\* sales dated in [start, end]; sales outside the range add nothing.
C6_WeeklyBuckets ==
    (last.op = "weeklyTotals" /\ last.status = 200) =>
        LET s == last.args[1]
            rows == last.body
        IN  /\ Len(rows) = 7
            /\ [i \in 1..7 |-> rows[i].day]
                   = <<"Sun", "Mon", "Tue", "Wed", "Thu", "Fri", "Sat">>
            /\ \A i \in 1..7 :
                   rows[i].total = SumTotal(SalesOnDays(s, i - 1, i - 1))
            /\ SumOfTotals(rows, 7) = SumTotal(SalesOnDays(s, 0, 6))

\* C6's case: a sale on the Wednesday of the week and a sale outside it.
C6_Witness ==
    /\ last.op = "weeklyTotals"
    /\ last.status = 200
    /\ last.body[4].total > 0
    /\ SalesOnDays(last.args[1], 0, 6) # sales

DayLabels ==
    <<
       <<"1">>, <<"2">>, <<"3">>, <<"4">>, <<"5">>, <<"6">>, <<"7">>,
       <<"8">>, <<"9">>, <<"1", "0">>, <<"1", "1">>, <<"1", "2">>, <<"1",
       "3">>, <<"1", "4">>, <<"1", "5">>, <<"1", "6">>, <<"1", "7">>,
       <<"1", "8">>, <<"1", "9">>, <<"2", "0">>, <<"2", "1">>, <<"2",
       "2">>, <<"2", "3">>, <<"2", "4">>, <<"2", "5">>, <<"2", "6">>,
       <<"2", "7">>, <<"2", "8">>, <<"2", "9">>, <<"3", "0">>, <<"3",
       "1">>
    >>

MonthLabels ==
    <<"Jan", "Feb", "Mar", "Apr", "May", "Jun",
      "Jul", "Aug", "Sep", "Oct", "Nov", "Dec">>

\* The days of the months asked for: February has 29 days in 2024, 28 in
\* 2023 and in 2100.
DaysOfMonth(y, m) ==
    CASE m = 2 /\ y = 2024 -> 29
      [] m = 2 /\ y \in {2023, 2100} -> 28
      [] m = 6 -> 30
      [] m = 12 -> 31

\* C7: no bucket is omitted: monthlyTotals(year, month) returns the entries
\* "1".."N" in ascending order, N the number of days of the month, and
\* yearlyTotals(year) for an accepted year returns the 12 entries Jan..Dec;
\* each total is the sum of total_price of the sales of that day (of that
\* month of that year), 0 when there is none.
C7_NoBucketOmitted ==
    /\ (last.op = "monthlyTotals" /\ last.args[2] \in 1..12) =>
           LET y == last.args[1]
               m == last.args[2]
               rows == last.body
           IN  /\ last.status = 200
               /\ Len(rows) = DaysOfMonth(y, m)
               /\ \A i \in 1..Len(rows) :
                      /\ rows[i].day = DayLabels[i]
                      /\ rows[i].total = SumTotal({x \in sales : x.date = D(y, m, i)})
    /\ (last.op = "yearlyTotals" /\ last.args >= 1900 /\ last.args <= 2100) =>
           LET rows == last.body
           IN  /\ last.status = 200
               /\ Len(rows) = 12
               /\ \A i \in 1..12 :
                      /\ rows[i].month = MonthLabels[i]
                      /\ rows[i].total = SumTotal({x \in sales :
                             x.date.year = last.args /\ x.date.month = i})

\* C7's case: February 2024 with a sale on the 29th and none on the 28th.
C7_Witness ==
    /\ last.op = "monthlyTotals"
    /\ last.args = <<2024, 2>>
    /\ Len(last.body) = 29
    /\ last.body[29].total > 0
    /\ last.body[28].total = 0

\* C8: the week summary() uses starts on the most recent Sunday on or before
\* today (today itself on a Sunday) and ends on the Saturday 6 days later,
\* so start <= today <= end; the start is (weekday + 1) mod 7 days before
\* today, weekday counted Monday = 0 .. Sunday = 6; summary.week is the sum
\* of total_price of the sales dated in that week.
C8_SummaryWeek ==
    last.op = "summary" =>
        LET today == last.args
            start == last.week_range[1]
            end == last.week_range[2]
        IN  /\ IsSunday(start)
            /\ DaysFrom(start, today) \in 0..6
            /\ IsSunday(today) => start = today
            /\ IsSaturday(end)
            /\ DaysFrom(start, end) = 6
            /\ DaysFrom(today, end) \in 0..6
            /\ DaysFrom(start, today) = (MondayFirstWeekday(today) + 1) % 7
            /\ last.body.week = SumTotal(SalesOnDays(start, 0, 6))

\* C8's case: today is a Sunday, with a sale today and a later one that week.
C8_Witness ==
    /\ last.op = "summary"
    /\ IsSunday(last.args)
    /\ last.week_range[1] = last.args
    /\ last.body.today > 0
    /\ last.body.week > last.body.today

(***************************************************************************)
(* Requests served concurrently.  Each worker serves one request at a      *)
(* time: get_db opens a session, the handler runs its store calls one by   *)
(* one, and get_db's finally closes the session on the way out.  Any store *)
(* call may fail (connection lost), which raises out of the handler.  The  *)
(* store checks the foreign key of sales.product_id when a commit is       *)
(* flushed.                                                                *)
(***************************************************************************)
Request(op, args) == [op |-> op, args |-> args, status |-> 0, detail |-> ""]

\* A store call on the worker's session.
UseSession(w) == misuse' = (misuse \/ session[w] # "open")

\* The handler raises: HTTPException(status) or an error from the store.
Raise(w, status, detail) ==
    /\ pc' = [pc EXCEPT ![w] = "raised"]
    /\ req' = [req EXCEPT ![w].status = status, ![w].detail = detail]

\* The handler returns its response.
Return(w) ==
    /\ pc' = [pc EXCEPT ![w] = "returned"]
    /\ req' = [req EXCEPT ![w].status = 200]

\* The store call fails: the error is not caught by the handler.
StoreFailure(w) ==
    /\ Raise(w, 500, "OperationalError")
    /\ UNCHANGED storeVars

\* get_db up to its yield, and the handler's first line.
Begin(w, r) ==
    /\ pc[w] \in {"idle", "done"}
    /\ served < MaxRequests
    /\ served' = served + 1
    /\ session' = [session EXCEPT ![w] = "open"]
    /\ opened' = [opened EXCEPT ![w] = 1]
    /\ closed' = [closed EXCEPT ![w] = 0]
    /\ req' = [req EXCEPT ![w] = r]
    /\ pc' = [pc EXCEPT ![w] = r.op]
    /\ UNCHANGED <<storeVars, last, misuse>>

\* create_product: db.add, db.commit, db.refresh
CreateProductCommit(w) ==
    /\ pc[w] = "createProduct"
    /\ UseSession(w)
    /\ \/ StoreFailure(w)
       \/ /\ products' = products \cup
                 {[id |-> nextProductId, product_name |-> req[w].args[1],
                   price |-> req[w].args[2]]}
          /\ nextProductId' = nextProductId + 1
          /\ UNCHANGED <<sales, nextSaleId>>
          /\ Return(w)
    /\ UNCHANGED <<last, session, opened, closed, served>>

\* create_sale: the query for the product and the 404
CreateSaleRead(w) ==
    /\ pc[w] = "createSale"
    /\ UseSession(w)
    /\ \/ StoreFailure(w)
       \/ /\ IF ProductById(req[w].args) = {}
             THEN Raise(w, 404, "Product not found")
             ELSE pc' = [pc EXCEPT ![w] = "createSaleCommit"] /\ UNCHANGED req
          /\ UNCHANGED storeVars
    /\ UNCHANGED <<last, session, opened, closed, served>>

\* create_sale: db.add, db.commit, db.refresh
CreateSaleCommit(w) ==
    /\ pc[w] = "createSaleCommit"
    /\ UseSession(w)
    /\ \/ StoreFailure(w)
       \/ LET new_sale == SalesRow(nextSaleId, SaleName, req[w].args, 3, Jun2, 150)
          IN  IF ForeignKeyHolds(products, sales \cup {new_sale})
              THEN /\ sales' = sales \cup {new_sale}
                   /\ nextSaleId' = nextSaleId + 1
                   /\ UNCHANGED <<products, nextProductId>>
                   /\ Return(w)
              ELSE /\ Raise(w, 500, "IntegrityError")
                   /\ UNCHANGED storeVars
    /\ UNCHANGED <<last, session, opened, closed, served>>

\* delete_product: the query for the product and the 404
DeleteRead(w) ==
    /\ pc[w] = "deleteProduct"
    /\ UseSession(w)
    /\ \/ StoreFailure(w)
       \/ /\ IF ProductById(req[w].args) = {}
             THEN Raise(w, 404, "Product not found")
             ELSE pc' = [pc EXCEPT ![w] = "deleteCheck"] /\ UNCHANGED req
          /\ UNCHANGED storeVars
    /\ UNCHANGED <<last, session, opened, closed, served>>

\* delete_product: the query for a sale of the product and the 400
DeleteCheck(w) ==
    /\ pc[w] = "deleteCheck"
    /\ UseSession(w)
    /\ \/ StoreFailure(w)
       \/ /\ IF DeleteBlocked(req[w].args)
             THEN Raise(w, 400, "Cannot delete: Product is used in sales records")
             ELSE pc' = [pc EXCEPT ![w] = "deleteCommit"] /\ UNCHANGED req
          /\ UNCHANGED storeVars
    /\ UNCHANGED <<last, session, opened, closed, served>>

\* delete_product: db.delete, db.commit
DeleteCommit(w) ==
    /\ pc[w] = "deleteCommit"
    /\ UseSession(w)
    /\ \/ StoreFailure(w)
       \/ LET left == products \ ProductById(req[w].args)
          IN  IF ForeignKeyHolds(left, sales)
              THEN /\ products' = left
                   /\ UNCHANGED <<sales, nextProductId, nextSaleId>>
                   /\ Return(w)
              ELSE /\ Raise(w, 500, "IntegrityError")
                   /\ UNCHANGED storeVars
    /\ UNCHANGED <<last, session, opened, closed, served>>

\* get_weekly_sales: the checks, raising before any store call, then the query
WeeklyQuery(w) ==
    /\ pc[w] = "weeklyTotals"
    /\ IF WeeklyRangeError(req[w].args[1], req[w].args[2]) # ""
       THEN /\ Raise(w, 400, WeeklyRangeError(req[w].args[1], req[w].args[2]))
            /\ UNCHANGED misuse
       ELSE /\ UseSession(w)
            /\ \/ Raise(w, 500, "OperationalError")
               \/ Return(w)
    /\ UNCHANGED <<storeVars, last, session, opened, closed, served>>

\* A slip: db.close() after the yield without try/finally, so that it runs
\* only when the handler returns.
SessionAfterExitNoFinally(how) == IF how = "returned" THEN "closed" ELSE "open"

\* get_db: try: yield db / finally: db.close()
SessionAfterExit(how) == "closed"

\* The request ends: get_db is resumed, by the return or by the exception.
Close(w) ==
    /\ pc[w] \in {"returned", "raised"}
    /\ session' = [session EXCEPT ![w] = SessionAfterExit(pc[w])]
    /\ closed' = [closed EXCEPT ![w] =
                     IF SessionAfterExit(pc[w]) = "closed" THEN @ + 1 ELSE @]
    /\ pc' = [pc EXCEPT ![w] = "done"]
    /\ UNCHANGED <<storeVars, last, req, opened, misuse, served>>

\* The steps of worker w's request once it has begun.
Step(w) ==
    \/ CreateProductCommit(w)
    \/ CreateSaleRead(w)
    \/ CreateSaleCommit(w)
    \/ DeleteRead(w)
    \/ DeleteCheck(w)
    \/ DeleteCommit(w)
    \/ WeeklyQuery(w)
    \/ Close(w)

\* One product is created, with id 1; before that, and once it is deleted,
\* 1 is the id of no product.
ConcRequests ==
    {Request("createProduct", <<"Milk", 50>>),
     Request("createSale", 1),
     Request("deleteProduct", 1),
     Request("weeklyTotals", <<Jun2, Jun8>>),
     Request("weeklyTotals", <<Jun2, Jun15>>)}

NextConc ==
    \E w \in Workers :
        \/ \E r \in ConcRequests :
               /\ r.op = "createProduct" => nextProductId <= 1
               /\ r.op = "createSale" => nextSaleId <= MaxSales
               /\ Begin(w, r)
        \/ Step(w)

\* A request that has begun runs on: its worker thread is scheduled.
SpecConc ==
    Init /\ [][NextConc]_vars /\ \A w \in Workers : WF_vars(Step(w))

(***************************************************************************)
(* Claims about concurrent requests, under SpecConc.                       *)
(***************************************************************************)
InHandler(w) ==
    pc[w] \in {"createProduct", "createSale", "createSaleCommit",
               "deleteProduct", "deleteCheck", "deleteCommit", "weeklyTotals"}

C9_SessionSafety ==
    /\ ~misuse
    /\ \A w \in Workers :
           /\ pc[w] # "idle" => opened[w] = 1
           /\ closed[w] <= 1
           /\ (InHandler(w) \/ pc[w] \in {"returned", "raised"}) =>
                  (session[w] = "open" /\ closed[w] = 0)
           /\ pc[w] = "done" => (session[w] = "closed" /\ closed[w] = 1)

\* C9: every request acquires exactly one session at its start, and that
\* session is eventually closed, exactly once, when the request ends, on
\* every way out: a return, a raised 400 or 404, a failure of the store.  No
\* request ends while it holds its session, and no session is used once it
\* is closed.
C9_SessionReleased ==
    /\ []C9_SessionSafety
    /\ \A w \in Workers : (session[w] = "open") ~> (session[w] = "closed")

\* C9's case: one request ended by a 404 and one by a failure of the store,
\* both with their sessions closed.
C9_Witness ==
    \E w1, w2 \in Workers :
        /\ pc[w1] = "done" /\ req[w1].status = 404 /\ session[w1] = "closed"
        /\ pc[w2] = "done" /\ req[w2].detail = "OperationalError"
        /\ session[w2] = "closed"

\* C10 as amended: with the store checking the foreign key of
\* sales.product_id at commit, a createSale and a deleteProduct for the same
\* product never both succeed, whatever the interleaving of their read and
\* commit steps, and no sale is committed whose product is deleted.
C10_NeverBothSucceed ==
    /\ \A s \in sales : s.product_id \in ProductIdsOf(products)
    /\ \A w1, w2 \in Workers :
           ~ /\ req[w1].op = "createSale" /\ req[w1].status = 200
             /\ req[w2].op = "deleteProduct" /\ req[w2].status = 200
             /\ req[w1].args = req[w2].args

\* C10's case: both requests passed the handlers' checks; the sale was
\* committed and the store refused the deletion.
C10_Witness ==
    \E w1, w2 \in Workers :
        /\ req[w1].op = "createSale" /\ req[w1].status = 200
        /\ req[w2].op = "deleteProduct" /\ req[w2].detail = "IntegrityError"
        /\ req[w1].args = req[w2].args

\* C10 as claimed: the handlers' checks alone keep a createSale and a
\* deleteProduct for the same product from both succeeding: a request that
\* passed them never reaches a commit that would leave a sale without its
\* product, so the store's foreign key never has anything to refuse.
C10_ApiChecksAlone ==
    \A w \in Workers : req[w].op # "none" => req[w].detail # "IntegrityError"

====
